---- MODULE Spec2Model ----
(***************************************************************************)
(* Access-control layer of the brove relay: the allowed_pubkeys table      *)
(* (database.go, DBManager) and the three policies registered in main()    *)
(* (write policy RejectEvent, read policy RejectFilter, management         *)
(* pre-check RejectAPICall and the management handlers).                   *)
(*                                                                         *)
(* Go strings are TLA+ strings.  A Go error is a sequence: Nil == <<>> is  *)
(* the nil error, <<text>> is an error whose Error() is text.  Every SQL   *)
(* statement is one atomic step of the database, and every handler issues  *)
(* at most one statement, so one handler call is one action.               *)
(***************************************************************************)
EXTENDS Integers, Sequences, FiniteSets, TLC

(* ---------------------------------------------------------------------- *)
(* Bounds and inputs                                                       *)
(* ---------------------------------------------------------------------- *)

\* Largest value of the database clock (CURRENT_TIMESTAMP readings 0..MaxClock).
MaxClock == 1

\* Largest number of calls the concurrent clients issue in one run.
MaxCalls == 4

\* Width of the pubkey column: pubkey VARCHAR(64).
PubkeyColumnLen == 64

\* A pubkey argument of 65 characters, one more than the column holds.
LongKey == "0123456789abcdef0123456789abcdef0123456789abcdef0123456789abcdef0"

\* Authenticated identities a connection can carry; "" is what
\* khatru.GetAuthed yields for a connection that has not authenticated.
Users == {"", "owner1", "alice"}

\* Pubkey arguments of management calls and authors of events.
Identities == Users \cup {"bob", LongKey}

\* Values of the RELAY_PUBKEY environment variable as getEnv(..., "") reads
\* it: "" when the variable is not set.
OwnerValues == {"", "owner1"}

\* Reason arguments of allow / ban.
Reasons == {"", "friend"}

\* The error text the database driver reports when the store is unreachable.
DriverErr == "dial tcp: connect: connection refused"

\* The error text of PostgreSQL when a value exceeds VARCHAR(64).
TooLongErr == "pq: value too long for type character varying(64)"

Nil == <<>>

Errorf(text) == <<text>>

(* ---------------------------------------------------------------------- *)
(* State                                                                   *)
(* ---------------------------------------------------------------------- *)

VARIABLES
    owner,   \* value of RELAY_PUBKEY in the process environment
    rows,    \* rows of table allowed_pubkeys: [pubkey, reason, created_at]
    dbUp,    \* TRUE iff the database answers statements
    now,     \* the database clock read by DEFAULT CURRENT_TIMESTAMP
    last,    \* the handler call that has just returned: its inputs, what it returned,
             \* the table before it; NoCall once the clock or the database has moved on
    inserted, \* history: the pubkeys that have a row, in the order their INSERTs took effect
    conc     \* the management calls in flight on concurrent connections (SpecConc):
             \* per client the call and its result, and counts of what took effect

vars == <<owner, rows, dbUp, now, last, inserted, conc>>

\* The pubkeys that have a row in table t.
Pubkeys(t) == {r.pubkey : r \in t}

\* The row of pubkey p in table t (p has one).
RowOf(t, p) == CHOOSE r \in t : r.pubkey = p

\* The sequence s without the entries equal to p.
Without(s, p) == SelectSeq(s, LAMBDA x : x # p)

\* The connections that issue management calls concurrently.
Clients == {"c1", "c2"}

\* The pubkey arguments of the concurrent calls.
ConcKeys == {"alice", "bob"}

\* A client with no call in flight.
IdleCall ==
    [pc |-> "idle", op |-> "", pubkey |-> "", reason |-> "", err |-> Nil,
     epoch |-> 0, found |-> FALSE]

\* No call in flight, none issued, no insert or delete has taken effect.
ConcIdle ==
    [calls |-> [c \in Clients |-> IdleCall],
     issued |-> 0,
     ins |-> [k \in ConcKeys |-> 0],
     del |-> [k \in ConcKeys |-> 0]]

NoCall ==
    [op |-> "none", user |-> "", pubkey |-> "", reason |-> "",
     reject |-> FALSE, msg |-> "", err |-> Nil, list |-> <<>>, before |-> {}]

(* ---------------------------------------------------------------------- *)
(* database.go: DBManager                                                  *)
(* ---------------------------------------------------------------------- *)

\* The INSERT without its ON CONFLICT clause on a table without the key.
InsertOnConflictDoNothing_Plain(t, pubkey, reason) ==
    t \cup {[pubkey |-> pubkey, reason |-> reason, created_at |-> now]}

\* The INSERT with ON CONFLICT (pubkey) DO UPDATE: a present row takes the
\* new reason and a new created_at.
InsertOnConflictDoNothing_Upsert(t, pubkey, reason) ==
    {r \in t : r.pubkey # pubkey}
        \cup {[pubkey |-> pubkey, reason |-> reason, created_at |-> now]}

\* The INSERT on a table whose key is (pubkey, reason) instead of pubkey.
InsertOnConflictDoNothing_KeyOnPair(t, pubkey, reason) ==
    IF \E r \in t : r.pubkey = pubkey /\ r.reason = reason
    THEN t
    ELSE t \cup {[pubkey |-> pubkey, reason |-> reason, created_at |-> now]}

\* INSERT INTO allowed_pubkeys (pubkey, reason) VALUES ($1, $2)
\* ON CONFLICT (pubkey) DO NOTHING; created_at takes DEFAULT CURRENT_TIMESTAMP.
InsertOnConflictDoNothing(t, pubkey, reason) ==
    IF pubkey \in Pubkeys(t)
    THEN t
    ELSE t \cup {[pubkey |-> pubkey, reason |-> reason, created_at |-> now]}

\* DELETE FROM allowed_pubkeys WHERE pubkey = $1
DeleteWhere(t, pubkey) == {r \in t : r.pubkey # pubkey}

\* result.RowsAffected() of the DELETE above.
RowsAffected(t, pubkey) == Cardinality({r \in t : r.pubkey = pubkey})

\* AddAllowedPubkey without the test for the empty pubkey.
AddAllowedPubkey_NoEmptyCheck(pubkey, reason) ==
    IF ~dbUp
    THEN [err |-> Errorf("failed to add allowed pubkey " \o pubkey \o ": " \o DriverErr),
          rows |-> rows]
    ELSE IF Len(pubkey) > PubkeyColumnLen
    THEN [err |-> Errorf("failed to add allowed pubkey " \o pubkey \o ": " \o TooLongErr),
          rows |-> rows]
    ELSE [err |-> Nil, rows |-> InsertOnConflictDoNothing(rows, pubkey, reason)]

AddAllowedPubkey(pubkey, reason) ==
    IF pubkey = ""
    THEN [err |-> Errorf("pubkey cannot be empty"), rows |-> rows]
    ELSE IF ~dbUp
    THEN [err |-> Errorf("failed to add allowed pubkey " \o pubkey \o ": " \o DriverErr),
          rows |-> rows]
    ELSE IF Len(pubkey) > PubkeyColumnLen
    THEN [err |-> Errorf("failed to add allowed pubkey " \o pubkey \o ": " \o TooLongErr),
          rows |-> rows]
    ELSE [err |-> Nil, rows |-> InsertOnConflictDoNothing(rows, pubkey, reason)]

\* RemoveAllowedPubkey without the test of rowsAffected.
RemoveAllowedPubkey_NoRowsCheck(pubkey) ==
    IF pubkey = ""
    THEN [err |-> Errorf("pubkey cannot be empty"), rows |-> rows]
    ELSE IF ~dbUp
    THEN [err |-> Errorf("failed to remove allowed pubkey " \o pubkey \o ": " \o DriverErr),
          rows |-> rows]
    ELSE [err |-> Nil, rows |-> DeleteWhere(rows, pubkey)]

\* RemoveAllowedPubkey testing rowsAffected < 0 instead of rowsAffected == 0.
RemoveAllowedPubkey_NegativeTest(pubkey) ==
    IF pubkey = ""
    THEN [err |-> Errorf("pubkey cannot be empty"), rows |-> rows]
    ELSE IF ~dbUp
    THEN [err |-> Errorf("failed to remove allowed pubkey " \o pubkey \o ": " \o DriverErr),
          rows |-> rows]
    ELSE IF RowsAffected(rows, pubkey) < 0
    THEN [err |-> Errorf("pubkey " \o pubkey \o " not found in allowed list"),
          rows |-> DeleteWhere(rows, pubkey)]
    ELSE [err |-> Nil, rows |-> DeleteWhere(rows, pubkey)]

RemoveAllowedPubkey(pubkey) ==
    IF pubkey = ""
    THEN [err |-> Errorf("pubkey cannot be empty"), rows |-> rows]
    ELSE IF ~dbUp
    THEN [err |-> Errorf("failed to remove allowed pubkey " \o pubkey \o ": " \o DriverErr),
          rows |-> rows]
    ELSE IF RowsAffected(rows, pubkey) = 0
    THEN [err |-> Errorf("pubkey " \o pubkey \o " not found in allowed list"),
          rows |-> DeleteWhere(rows, pubkey)]
    ELSE [err |-> Nil, rows |-> DeleteWhere(rows, pubkey)]

\* IsAllowedPubkey whose query lost its WHERE clause.
IsAllowedPubkey_AnyRow(pubkey) ==
    IF pubkey = ""
    THEN [exists |-> FALSE, err |-> Nil]
    ELSE IF ~dbUp
    THEN [exists |-> FALSE,
          err |-> Errorf("failed to check if pubkey " \o pubkey \o " is allowed: " \o DriverErr)]
    ELSE [exists |-> rows # {}, err |-> Nil]

\* IsAllowedPubkey answering from a copy of the table kept from the previous
\* handler call instead of querying the table.
IsAllowedPubkey_Stale(pubkey) ==
    IF pubkey = ""
    THEN [exists |-> FALSE, err |-> Nil]
    ELSE IF ~dbUp
    THEN [exists |-> FALSE,
          err |-> Errorf("failed to check if pubkey " \o pubkey \o " is allowed: " \o DriverErr)]
    ELSE [exists |-> pubkey \in Pubkeys(last.before), err |-> Nil]

IsAllowedPubkey(pubkey) ==
    IF pubkey = ""
    THEN [exists |-> FALSE, err |-> Nil]
    ELSE IF ~dbUp
    THEN [exists |-> FALSE,
          err |-> Errorf("failed to check if pubkey " \o pubkey \o " is allowed: " \o DriverErr)]
    ELSE [exists |-> pubkey \in Pubkeys(rows), err |-> Nil]

\* SELECT pubkey FROM allowed_pubkeys ORDER BY created_at: every row once,
\* created_at ascending; rows with equal created_at come in any order.
OrderByCreatedAt(t) ==
    {s \in [1..Cardinality(t) -> Pubkeys(t)] :
        /\ \A i, j \in 1..Cardinality(t) : i # j => s[i] # s[j]
        /\ \A i, j \in 1..Cardinality(t) :
              i < j => RowOf(t, s[i]).created_at <= RowOf(t, s[j]).created_at}

\* The results GetAllowedPubkeys can return in the current state.
GetAllowedPubkeys ==
    IF ~dbUp
    THEN {[pubkeys |-> <<>>, err |-> Errorf("failed to query allowed pubkeys: " \o DriverErr)]}
    ELSE {[pubkeys |-> s, err |-> Nil] : s \in OrderByCreatedAt(rows)}

(* ---------------------------------------------------------------------- *)
(* main(): the policies                                                    *)
(* ---------------------------------------------------------------------- *)

AuthErrorMsg == "error checking authorization"
WriteDeniedMsg == "this is a private relay, only authorized users can write here"
ReadDeniedMsg == "this is a private relay, only authorized users can read here"
AuthRequiredPrefix == "auth-required: "
AuthRequiredMsg == "auth-required: only authenticated users can read from this relay"
IntruderMsg == "go away, intruder"

\* RejectEvent with the owner test joined by "and" instead of "or".
RejectEvent_OwnerAndAllowed(pubkey) ==
    LET ownerPubKey == owner
        r == IsAllowedPubkey(pubkey)
    IN  IF r.err # Nil
        THEN [reject |-> TRUE, msg |-> AuthErrorMsg]
        ELSE IF r.exists /\ pubkey = ownerPubKey
        THEN [reject |-> FALSE, msg |-> ""]
        ELSE [reject |-> TRUE, msg |-> WriteDeniedMsg]

\* The write policy appended to relay.RejectEvent; pubkey is event.PubKey.
RejectEvent(pubkey) ==
    LET ownerPubKey == owner
        r == IsAllowedPubkey(pubkey)
    IN  IF r.err # Nil
        THEN [reject |-> TRUE, msg |-> AuthErrorMsg]
        ELSE IF r.exists \/ pubkey = ownerPubKey
        THEN [reject |-> FALSE, msg |-> ""]
        ELSE [reject |-> TRUE, msg |-> WriteDeniedMsg]

\* RejectFilter returning err.Error() as the reason of the rejection.
RejectFilter_LeaksErr(authed) ==
    LET ownerPubKey == owner
    IN  IF authed # ""
        THEN LET r == IsAllowedPubkey(authed)
             IN  IF r.err # Nil
                 THEN [reject |-> TRUE, msg |-> r.err[1]]
                 ELSE IF r.exists \/ authed = ownerPubKey
                 THEN [reject |-> FALSE, msg |-> ""]
                 ELSE [reject |-> TRUE, msg |-> ReadDeniedMsg]
        ELSE [reject |-> TRUE, msg |-> AuthRequiredMsg]

\* RejectFilter testing for the owner before testing for authentication.
RejectFilter_OwnerFirst(authed) ==
    LET ownerPubKey == owner
    IN  IF authed = ownerPubKey
        THEN [reject |-> FALSE, msg |-> ""]
        ELSE IF authed # ""
        THEN LET r == IsAllowedPubkey(authed)
             IN  IF r.err # Nil
                 THEN [reject |-> TRUE, msg |-> AuthErrorMsg]
                 ELSE IF r.exists
                 THEN [reject |-> FALSE, msg |-> ""]
                 ELSE [reject |-> TRUE, msg |-> ReadDeniedMsg]
        ELSE [reject |-> TRUE, msg |-> AuthRequiredMsg]

\* The read policy appended to relay.RejectFilter; authed is khatru.GetAuthed(ctx).
RejectFilter(authed) ==
    LET ownerPubKey == owner
    IN  IF authed # ""
        THEN LET r == IsAllowedPubkey(authed)
             IN  IF r.err # Nil
                 THEN [reject |-> TRUE, msg |-> AuthErrorMsg]
                 ELSE IF r.exists \/ authed = ownerPubKey
                 THEN [reject |-> FALSE, msg |-> ""]
                 ELSE [reject |-> TRUE, msg |-> ReadDeniedMsg]
        ELSE [reject |-> TRUE, msg |-> AuthRequiredMsg]

\* The nip86.MethodParams of a management call.
MethodParams(method, pubkey, reason) ==
    [method |-> method, pubkey |-> pubkey, reason |-> reason]

\* RejectAPICall letting the two listing methods through for every caller.
RejectAPICall_ListsOpen(user, mp) ==
    LET ownerPubKey == owner
    IN  IF user # ownerPubKey /\ mp.method \notin {"listallowedpubkeys", "listbannedpubkeys"}
        THEN [reject |-> TRUE, msg |-> IntruderMsg]
        ELSE [reject |-> FALSE, msg |-> ""]

\* RejectAPICall with the comparison inverted.
RejectAPICall_Inverted(user, mp) ==
    LET ownerPubKey == owner
    IN  IF user = ownerPubKey
        THEN [reject |-> TRUE, msg |-> IntruderMsg]
        ELSE [reject |-> FALSE, msg |-> ""]

\* The management pre-check appended to relay.ManagementAPI.RejectAPICall;
\* user is khatru.GetAuthed(ctx), mp the method and parameters of the call.
RejectAPICall(user, mp) ==
    LET ownerPubKey == owner
    IN  IF user # ownerPubKey
        THEN [reject |-> TRUE, msg |-> IntruderMsg]
        ELSE [reject |-> FALSE, msg |-> ""]

\* The body of the ListAllowedPubKeys handler that turns an error of
\* GetAllowedPubkeys into an empty listing without an error.
ListAllowedResult_SwallowsErr(res) ==
    IF res.err # Nil
    THEN [list |-> <<>>, err |-> Nil]
    ELSE [list |-> [i \in 1..Len(res.pubkeys) |->
                      [PubKey |-> res.pubkeys[i], Reason |-> ""]],
          err |-> Nil]

\* The body of the ListAllowedPubKeys handler, given the result res of
\* dbManager.GetAllowedPubkeys(): (nil, err) on an error, else one
\* nip86.PubKeyReason per pubkey, in order, with Reason "".
ListAllowedResult(res) ==
    IF res.err # Nil
    THEN [list |-> <<>>, err |-> res.err]
    ELSE [list |-> [i \in 1..Len(res.pubkeys) |->
                      [PubKey |-> res.pubkeys[i], Reason |-> ""]],
          err |-> Nil]

(* ---------------------------------------------------------------------- *)
(* Actions: one per call of the relay framework into the policies          *)
(* ---------------------------------------------------------------------- *)

Init ==
    /\ owner \in OwnerValues
    /\ rows = {}
    /\ dbUp = TRUE
    /\ now = 0
    /\ last = NoCall
    /\ inserted = <<>>
    /\ conc = ConcIdle

\* The framework evaluates the write policy on an event whose author is pubkey.
WriteEvent(pubkey) ==
    LET d == RejectEvent(pubkey)
    IN  /\ last' = [NoCall EXCEPT !.op = "write", !.pubkey = pubkey,
                                  !.reject = d.reject, !.msg = d.msg,
                                  !.err = IsAllowedPubkey(pubkey).err, !.before = rows]
        /\ UNCHANGED <<owner, rows, dbUp, now, inserted, conc>>

\* The framework evaluates the read policy on a filter of a connection
\* authenticated as authed ("" when not authenticated).
ReadFilter(authed) ==
    LET d == RejectFilter(authed)
    IN  /\ last' = [NoCall EXCEPT !.op = "read", !.user = authed,
                                  !.reject = d.reject, !.msg = d.msg,
                                  !.err = IF authed # "" THEN IsAllowedPubkey(authed).err ELSE Nil,
                                  !.before = rows]
        /\ UNCHANGED <<owner, rows, dbUp, now, inserted, conc>>

\* The record of a management call of method op by user that the pre-check
\* rejects with message msg: the method is not dispatched.
Rejected(op, user, msg) ==
    [NoCall EXCEPT !.op = op, !.user = user, !.reject = TRUE, !.msg = msg,
                   !.before = rows]

\* The record of a management call of method op by user that the pre-check
\* lets through and that returns err (and list, for a listing).
Dispatched(op, user, pubkey, reason, err, list) ==
    [NoCall EXCEPT !.op = op, !.user = user, !.pubkey = pubkey, !.reason = reason,
                   !.err = err, !.list = list, !.before = rows]

\* Management call allowpubkey(pubkey, reason) by user.
AllowPubKey(user, pubkey, reason) ==
    LET pre == RejectAPICall(user, MethodParams("allowpubkey", pubkey, reason))
    IN  IF pre.reject
        THEN /\ last' = Rejected("allow", user, pre.msg)
             /\ UNCHANGED <<owner, rows, dbUp, now, inserted, conc>>
        ELSE LET res == AddAllowedPubkey(pubkey, reason)
             IN  /\ rows' = res.rows
                 /\ inserted' = IF Pubkeys(res.rows) = Pubkeys(rows)
                                THEN inserted
                                ELSE Append(inserted, pubkey)
                 /\ last' = Dispatched("allow", user, pubkey, reason, res.err, <<>>)
                 /\ UNCHANGED <<owner, dbUp, now, conc>>

\* Management call banpubkey(pubkey, reason) by user; the handler drops reason.
BanPubKey(user, pubkey, reason) ==
    LET pre == RejectAPICall(user, MethodParams("banpubkey", pubkey, reason))
    IN  IF pre.reject
        THEN /\ last' = Rejected("ban", user, pre.msg)
             /\ UNCHANGED <<owner, rows, dbUp, now, inserted, conc>>
        ELSE LET res == RemoveAllowedPubkey(pubkey)
             IN  /\ rows' = res.rows
                 /\ inserted' = IF Pubkeys(res.rows) = Pubkeys(rows)
                                THEN inserted
                                ELSE Without(inserted, pubkey)
                 /\ last' = Dispatched("ban", user, pubkey, "", res.err, <<>>)
                 /\ UNCHANGED <<owner, dbUp, now, conc>>

\* Management call listallowedpubkeys() by user.
ListAllowedPubKeys(user) ==
    LET pre == RejectAPICall(user, MethodParams("listallowedpubkeys", "", ""))
    IN  IF pre.reject
        THEN /\ last' = Rejected("listAllowed", user, pre.msg)
             /\ UNCHANGED <<owner, rows, dbUp, now, inserted, conc>>
        ELSE \E res \in GetAllowedPubkeys :
                 /\ last' = Dispatched("listAllowed", user, "", "",
                                ListAllowedResult(res).err, ListAllowedResult(res).list)
                 /\ UNCHANGED <<owner, rows, dbUp, now, inserted, conc>>

\* Management call listbannedpubkeys() by user.
ListBannedPubKeys(user) ==
    LET pre == RejectAPICall(user, MethodParams("listbannedpubkeys", "", ""))
    IN  IF pre.reject
        THEN /\ last' = Rejected("listBanned", user, pre.msg)
             /\ UNCHANGED <<owner, rows, dbUp, now, inserted, conc>>
        ELSE /\ last' = Dispatched("listBanned", user, "", "", Nil, <<>>)
             /\ UNCHANGED <<owner, rows, dbUp, now, inserted, conc>>

\* The database clock advances.
Tick ==
    /\ now < MaxClock
    /\ now' = now + 1
    /\ last' = NoCall
    /\ UNCHANGED <<owner, rows, dbUp, inserted, conc>>

\* The database becomes unreachable.
DbFail ==
    /\ dbUp
    /\ dbUp' = FALSE
    /\ last' = NoCall
    /\ UNCHANGED <<owner, rows, now, inserted, conc>>

\* The database becomes reachable again.
DbRecover ==
    /\ ~dbUp
    /\ dbUp' = TRUE
    /\ last' = NoCall
    /\ UNCHANGED <<owner, rows, now, inserted, conc>>

Next ==
    \/ \E p \in Identities : WriteEvent(p)
    \/ \E u \in Users : ReadFilter(u)
    \/ \E u \in Users, p \in Identities, r \in Reasons : AllowPubKey(u, p, r)
    \/ \E u \in Users, p \in Identities, r \in Reasons : BanPubKey(u, p, r)
    \/ \E u \in Users : ListAllowedPubKeys(u)
    \/ \E u \in Users : ListBannedPubKeys(u)
    \/ Tick
    \/ DbFail
    \/ DbRecover

Spec == Init /\ [][Next]_vars

(* ---------------------------------------------------------------------- *)
(* Concurrent management calls                                             *)
(*                                                                         *)
(* The framework serves every connection on its own goroutine, so the      *)
(* handlers AllowPubKey and BanPubKey run concurrently on the one shared    *)
(* DBManager.  A call is issued, executes its single SQL statement (one    *)
(* atomic step of the database) together with the handling of its result,  *)
(* and returns.  The callers have passed the pre-check; the store is        *)
(* reachable.                                                              *)
(* ---------------------------------------------------------------------- *)

InitConc == Init /\ owner = "owner1"

\* Client c issues allowpubkey(pubkey, reason) (op "add") or
\* banpubkey(pubkey, reason) (op "remove"); the pre-check lets it through.
ConcCall(c, op, pubkey, reason) ==
    /\ conc.calls[c].pc = "idle"
    /\ conc.issued < MaxCalls
    /\ ~RejectAPICall(owner, MethodParams(IF op = "add" THEN "allowpubkey" ELSE "banpubkey",
                                          pubkey, reason)).reject
    /\ conc' = [conc EXCEPT
                   !.calls[c] = [IdleCall EXCEPT !.pc = "called", !.op = op,
                                                 !.pubkey = pubkey,
                                                 !.reason = IF op = "add" THEN reason ELSE ""],
                   !.issued = @ + 1]
    /\ UNCHANGED <<owner, rows, dbUp, now, last, inserted>>

\* The call of client c runs AddAllowedPubkey or RemoveAllowedPubkey.  Its
\* record keeps the error returned, the number of inserts of its pubkey
\* that had taken effect before (epoch), and whether the pubkey had a row.
ConcExec(c) ==
    LET call == conc.calls[c]
        k == call.pubkey
        res == IF call.op = "add"
               THEN AddAllowedPubkey(k, call.reason)
               ELSE RemoveAllowedPubkey(k)
    IN  /\ call.pc = "called"
        /\ rows' = res.rows
        /\ inserted' = IF Pubkeys(res.rows) = Pubkeys(rows)
                       THEN inserted
                       ELSE IF k \in Pubkeys(res.rows)
                       THEN Append(inserted, k)
                       ELSE Without(inserted, k)
        /\ conc' = [conc EXCEPT
                       !.calls[c] = [call EXCEPT !.pc = "done", !.err = res.err,
                                                 !.epoch = conc.ins[k],
                                                 !.found = k \in Pubkeys(rows)],
                       !.ins[k] = IF k \in Pubkeys(res.rows) \ Pubkeys(rows)
                                  THEN @ + 1 ELSE @,
                       !.del[k] = IF call.op = "remove" /\ res.err = Nil
                                  THEN @ + 1 ELSE @]
        /\ UNCHANGED <<owner, dbUp, now, last>>

\* The call of client c returns to its caller.
ConcReturn(c) ==
    /\ conc.calls[c].pc = "done"
    /\ conc' = [conc EXCEPT !.calls[c] = IdleCall]
    /\ UNCHANGED <<owner, rows, dbUp, now, last, inserted>>

NextConc ==
    \/ \E c \in Clients, op \in {"add", "remove"}, k \in ConcKeys, r \in Reasons :
           ConcCall(c, op, k, r)
    \/ \E c \in Clients : ConcExec(c)
    \/ \E c \in Clients : ConcReturn(c)

SpecConc == InitConc /\ [][NextConc]_vars

(* ---------------------------------------------------------------------- *)
(* Properties                                                              *)
(* ---------------------------------------------------------------------- *)

\* s starts with p.
HasPrefix(s, p) == Len(s) >= Len(p) /\ SubSeq(s, 1, Len(p)) = p

\* sub occurs in s.
Contains(s, sub) ==
    \E i \in 1..(Len(s) - Len(sub) + 1) : SubSeq(s, i, i + Len(sub) - 1) = sub

\* The methods of the management API.
ManagementOps == {"allow", "ban", "listAllowed", "listBanned"}

\* The number of rows of table t whose pubkey is p.
Entries(t, p) == Cardinality({r \in t : r.pubkey = p})

\* The error RemoveAllowedPubkey returns when the DELETE affected no row.
NotFoundErr(p) == Errorf("pubkey " \o p \o " not found in allowed list")

\* C1: a write whose author is the owner, and a read on a session
\* authenticated as the owner, are accepted in every state of the store,
\* also when the store is unreachable.
C1_OwnerAlwaysAuthorized ==
    /\ (last.op = "write" /\ last.pubkey = owner) => ~last.reject
    /\ (last.op = "read" /\ last.user # "" /\ last.user = owner) => ~last.reject

\* C2: when the store lookup for a non-owner identity fails, the write
\* policy and the read policy reject with the fixed message "error checking
\* authorization", which carries no part of the storage error's text.
C2_FailClosed ==
    LET subject == IF last.op = "write" THEN last.pubkey ELSE last.user
    IN  (last.op \in {"write", "read"} /\ last.err # Nil /\ subject # owner) =>
            /\ last.reject
            /\ last.msg = AuthErrorMsg
            /\ ~Contains(last.msg, last.err[1])
            /\ ~Contains(last.msg, DriverErr)

\* An allowed identity reads while the store is unreachable and is rejected.
C2_Witness ==
    /\ last.op = "read" /\ last.user = "alice" /\ owner = "owner1"
    /\ "alice" \in Pubkeys(rows)
    /\ last.err # Nil /\ last.reject

\* C3: with healthy storage the write policy accepts (reject = FALSE, empty
\* reason) exactly when the author is the owner or has a row in the
\* allowlist, and rejects every other author with the private-relay write
\* message.
C3_WritePolicy ==
    (last.op = "write" /\ dbUp) =>
        IF last.pubkey = owner \/ last.pubkey \in Pubkeys(rows)
        THEN ~last.reject /\ last.msg = ""
        ELSE last.reject /\ last.msg = WriteDeniedMsg

\* alice, allowed after bob was, writes and is accepted; the owner has no row.
C3_Witness ==
    /\ last.op = "write" /\ last.pubkey = "alice" /\ ~last.reject
    /\ owner = "owner1" /\ dbUp
    /\ inserted = <<"bob", "alice">>

\* C4: the read policy on an unauthenticated session rejects with a reason
\* that starts with "auth-required: ", whatever the allowlist, the owner and
\* the reachability of the store.
C4_UnauthenticatedRead ==
    (last.op = "read" /\ last.user = "") =>
        last.reject /\ HasPrefix(last.msg, AuthRequiredPrefix)

\* An unauthenticated read when RELAY_PUBKEY is not set and the store is down.
C4_Witness ==
    /\ last.op = "read" /\ last.user = "" /\ last.reject
    /\ owner = "" /\ ~dbUp /\ rows # {}

\* C5: with healthy storage the read policy on a session authenticated as X
\* accepts exactly when X is the owner or has a row in the allowlist;
\* otherwise it rejects with the private-relay read message, which is not an
\* auth-required reason.
C5_ReadPolicy ==
    (last.op = "read" /\ last.user # "" /\ dbUp) =>
        IF last.user = owner \/ last.user \in Pubkeys(rows)
        THEN ~last.reject /\ last.msg = ""
        ELSE /\ last.reject
             /\ last.msg = ReadDeniedMsg
             /\ ~HasPrefix(last.msg, AuthRequiredPrefix)

\* alice is authenticated but not allowed, while the allowlist has other rows.
C5_Witness ==
    /\ last.op = "read" /\ last.user = "alice" /\ owner = "owner1" /\ dbUp
    /\ "alice" \notin Pubkeys(rows) /\ rows # {}
    /\ last.reject /\ last.msg = ReadDeniedMsg

\* C6: the management pre-check rejects a call of any method exactly when
\* the caller is not the owner, always with the message "go away, intruder",
\* and lets the call through when the caller is the owner.
C6_ManagementPreCheck ==
    last.op \in ManagementOps =>
        /\ last.reject <=> last.user # owner
        /\ last.reject => last.msg = IntruderMsg
        /\ ~last.reject => last.msg = ""

\* alice is in the allowlist and still may not list it.
C6_Witness ==
    /\ last.op = "listAllowed" /\ last.user = "alice" /\ owner = "owner1"
    /\ "alice" \in Pubkeys(rows)
    /\ last.reject

\* C7: the store never holds a row for the owner, and the owner stays
\* authorized (storage healthy) after any sequence of management calls.
C7_OwnerNeverPersisted ==
    /\ owner \notin Pubkeys(rows)
    /\ dbUp => ~RejectEvent(owner).reject
    /\ (dbUp /\ owner # "") => ~RejectFilter(owner).reject

\* C8: add never fails because the identity is already present: it fails
\* only when the storage reports an error (store unreachable, value longer
\* than the column) or the identity is empty, and after add(X, r) on a
\* present X the store holds exactly one row for X.
C8_AddIdempotent ==
    (last.op = "allow" /\ ~last.reject) =>
        /\ last.err # Nil =>
              \/ ~dbUp
              \/ last.pubkey = ""
              \/ Len(last.pubkey) > PubkeyColumnLen
        /\ (last.pubkey \in Pubkeys(last.before) /\ dbUp) => last.err = Nil
        /\ last.pubkey \in Pubkeys(last.before) => Entries(rows, last.pubkey) = 1
        /\ last.err = Nil => Entries(rows, last.pubkey) = 1

\* add(X, r2) succeeded on an X that was present with another reason r1.
C8_Witness ==
    /\ last.op = "allow" /\ ~last.reject /\ last.err = Nil
    /\ owner = "owner1" /\ last.pubkey = "alice"
    /\ last.pubkey \in Pubkeys(last.before)
    /\ RowOf(last.before, last.pubkey).reason # last.reason

\* C9: the owner's ban(X, r), which is remove(X), returns the not-found
\* error and leaves the store unchanged when X (not empty, storage healthy)
\* has no row; when X has a row it succeeds and removes that row only, after
\* which X has no row.  A ban of an absent identity is never a success.
C9_RemoveNotFound ==
    (last.op = "ban" /\ ~last.reject) =>
        /\ (last.pubkey # "" /\ dbUp /\ last.pubkey \notin Pubkeys(last.before)) =>
              last.err = NotFoundErr(last.pubkey) /\ rows = last.before
        /\ (last.pubkey \in Pubkeys(last.before) /\ dbUp) =>
              /\ last.err = Nil
              /\ rows = last.before \ {RowOf(last.before, last.pubkey)}
              /\ last.pubkey \notin Pubkeys(rows)
        /\ last.pubkey \notin Pubkeys(last.before) =>
              last.err # Nil /\ rows = last.before

\* The owner bans bob, who has no row, from a non-empty allowlist.
C9_Witness ==
    /\ last.op = "ban" /\ ~last.reject /\ last.pubkey = "bob"
    /\ owner = "owner1"
    /\ last.err = NotFoundErr("bob")
    /\ rows # {}

\* C10: list() returns the identities of the store, each once, in the order
\* in which their inserts took effect, and the empty sequence for an empty
\* store.  Stated for a configured owner who has no row of their own, so
\* that only ordinary entries are listed.
C10_ListInsertionOrder ==
    (/\ last.op = "listAllowed" /\ ~last.reject /\ last.err = Nil
     /\ owner # "" /\ owner \notin Pubkeys(rows)) =>
        [i \in 1..Len(last.list) |-> last.list[i].PubKey] = inserted

\* The error AddAllowedPubkey and RemoveAllowedPubkey return for "".
EmptyPubkeyErr == Errorf("pubkey cannot be empty")

\* The pubkeys of a listing, in its order.
ListedPubkeys(list) == [i \in 1..Len(list) |-> list[i].PubKey]

\* C11: add("", r) and remove("") return the empty-pubkey error, not an
\* error of the storage, also when the store is unreachable, and leave the
\* store unchanged; contains("") is (false, nil) in every state, also when
\* the store is unreachable.
C11_EmptyIdentity ==
    /\ (last.op \in {"allow", "ban"} /\ ~last.reject /\ last.pubkey = "") =>
          last.err = EmptyPubkeyErr /\ rows = last.before
    /\ IsAllowedPubkey("") = [exists |-> FALSE, err |-> Nil]
    /\ (last.op = "write" /\ last.pubkey = "") => last.err = Nil
    /\ "" \notin Pubkeys(rows)

\* The owner adds "" while the store is unreachable and holds rows.
C11_Witness ==
    /\ last.op = "allow" /\ ~last.reject /\ last.pubkey = ""
    /\ owner = "owner1" /\ ~dbUp /\ rows # {}
    /\ last.err = EmptyPubkeyErr

\* C12: the owner's listAllowed() has exactly one entry per identity of the
\* store and no other, in an order list() returns for the table (created_at
\* ascending); when list() fails, listAllowed() returns an error.
C12_ListAllowedFull ==
    (last.op = "listAllowed" /\ ~last.reject) =>
        IF dbUp
        THEN /\ last.err = Nil
             /\ Len(last.list) = Cardinality(rows)
             /\ {last.list[i].PubKey : i \in 1..Len(last.list)} = Pubkeys(rows)
             /\ ListedPubkeys(last.list) \in OrderByCreatedAt(rows)
        ELSE last.err # Nil

\* The owner lists two ordinary entries inserted at different times.
C12_Witness ==
    /\ last.op = "listAllowed" /\ ~last.reject /\ last.err = Nil
    /\ owner = "owner1" /\ owner \notin Pubkeys(rows)
    /\ Len(last.list) = 2
    /\ \E r1, r2 \in rows : r1.created_at < r2.created_at

\* C13: the listAllowed() entry of an identity carries the reason stored
\* with it.  Stated for a configured owner who has no row of their own, so
\* that only ordinary entries are listed.
C13_ReasonSurfaced ==
    (/\ last.op = "listAllowed" /\ ~last.reject /\ last.err = Nil
     /\ owner # "" /\ owner \notin Pubkeys(rows)) =>
        \A i \in 1..Len(last.list) :
            last.list[i].Reason = RowOf(rows, last.list[i].PubKey).reason

\* C14: a step changes the allowlist only if it is an allow or ban call that
\* passed the pre-check with the owner as caller; evaluations of the write
\* and read policies, listings, and calls rejected by the pre-check leave it
\* unchanged.
C14_OnlyOwnerChangesAllowlist ==
    [][/\ rows' # rows =>
             /\ last'.op \in {"allow", "ban"}
             /\ ~last'.reject
             /\ last'.user = owner
       /\ (\/ last'.op \in {"write", "read", "listAllowed", "listBanned"}
           \/ last'.reject) => rows' = rows]_vars

\* alice, herself allowed, calls allow and is rejected; the table is as before.
C14_Witness ==
    /\ last.op = "allow" /\ last.reject /\ last.user = "alice"
    /\ owner = "owner1" /\ "alice" \in Pubkeys(rows)
    /\ rows = last.before

\* The subject of a policy decision: the author of the event or the
\* authenticated identity of the connection.
Subject(c) == IF c.op = "write" THEN c.pubkey ELSE c.user

\* C15: decisions follow the persisted allowlist with no delay.  A
\* successful ban(X) leaves X without a row and a successful allow(X) leaves
\* X with a row; X gains a row only by a successful allow(X) and loses it
\* only by a successful ban(X); and each write or read decision for a
\* non-owner X (storage healthy) accepts exactly when X has a row at that
\* moment.
C15_NoStaleAuthorization ==
    [][/\ (last'.op = "ban" /\ ~last'.reject /\ last'.err = Nil) =>
             last'.pubkey \notin Pubkeys(rows')
       /\ (last'.op = "allow" /\ ~last'.reject /\ last'.err = Nil) =>
             last'.pubkey \in Pubkeys(rows')
       /\ \A X \in Pubkeys(rows') \ Pubkeys(rows) :
             last'.op = "allow" /\ last'.pubkey = X /\ ~last'.reject /\ last'.err = Nil
       /\ \A X \in Pubkeys(rows) \ Pubkeys(rows') :
             last'.op = "ban" /\ last'.pubkey = X /\ ~last'.reject /\ last'.err = Nil
       /\ (/\ last'.op \in {"write", "read"}
           /\ Subject(last') # "" /\ Subject(last') # owner /\ dbUp') =>
             (last'.reject <=> Subject(last') \notin Pubkeys(rows'))]_vars

\* The owner's ban of alice has just succeeded, and both policies reject her.
C15_Witness ==
    /\ last.op = "ban" /\ ~last.reject /\ last.err = Nil /\ last.pubkey = "alice"
    /\ owner = "owner1" /\ dbUp
    /\ RejectEvent("alice").reject /\ RejectFilter("alice").reject

\* C17: a caller without an authenticated identity never passes the
\* management pre-check, whatever RELAY_PUBKEY is, also when it is not set.
C17_UnauthenticatedNeverManages ==
    (last.op \in ManagementOps /\ last.user = "") => last.reject

\* C19: add(X, r2) on an X that has a row changes nothing: the table is the
\* one before the call, X keeps its reason and its created_at, and list()
\* has the same possible results.
C19_AddPresentChangesNothing ==
    (last.op = "allow" /\ ~last.reject /\ last.pubkey \in Pubkeys(last.before)) =>
        /\ rows = last.before
        /\ RowOf(rows, last.pubkey).reason = RowOf(last.before, last.pubkey).reason
        /\ RowOf(rows, last.pubkey).created_at = RowOf(last.before, last.pubkey).created_at
        /\ OrderByCreatedAt(rows) = OrderByCreatedAt(last.before)

\* alice, inserted before bob with another reason, is added again later.
C19_Witness ==
    /\ last.op = "allow" /\ ~last.reject /\ last.err = Nil /\ last.pubkey = "alice"
    /\ owner = "owner1" /\ inserted = <<"alice", "bob">>
    /\ RowOf(rows, "alice").reason # last.reason
    /\ RowOf(rows, "alice").created_at < RowOf(rows, "bob").created_at
    /\ RowOf(rows, "bob").created_at <= now

\* C16: under every interleaving of concurrent add and remove calls the
\* allowlist holds at most one row per identity.
C16_AtMostOnce ==
    \A p \in Identities : Entries(rows, p) <= 1

\* Two clients have added the same absent identity concurrently, with
\* different reasons; both calls succeeded and one row exists.
C16_Witness ==
    /\ \A c \in Clients :
          /\ conc.calls[c].pc = "done" /\ conc.calls[c].op = "add"
          /\ conc.calls[c].pubkey = "alice" /\ conc.calls[c].err = Nil
    /\ conc.calls["c1"].reason # conc.calls["c2"].reason
    /\ \E c \in Clients : ~conc.calls[c].found
    /\ Entries(rows, "alice") = 1

\* Two concurrent calls, both executed and not yet returned, that removed
\* the same pubkey with no insert of it taking effect between them.
ConcurrentRemoves(c, d) ==
    /\ c # d
    /\ conc.calls[c].pc = "done" /\ conc.calls[d].pc = "done"
    /\ conc.calls[c].op = "remove" /\ conc.calls[d].op = "remove"
    /\ conc.calls[c].pubkey = conc.calls[d].pubkey
    /\ conc.calls[c].epoch = conc.calls[d].epoch

\* C18: of two concurrent removes of the same identity with no add of it in
\* between, never both succeed, and when the identity had a row exactly one
\* succeeds and the other returns the not-found error; the successful
\* removes of an identity never outnumber its inserts that took effect.
C18_OneRemoveWins ==
    /\ \A c, d \in Clients :
          ConcurrentRemoves(c, d) =>
              /\ ~(conc.calls[c].err = Nil /\ conc.calls[d].err = Nil)
              /\ (conc.calls[c].found \/ conc.calls[d].found) =>
                    \/ /\ conc.calls[c].err = Nil
                       /\ conc.calls[d].err = NotFoundErr(conc.calls[d].pubkey)
                    \/ /\ conc.calls[d].err = Nil
                       /\ conc.calls[c].err = NotFoundErr(conc.calls[c].pubkey)
    /\ \A k \in ConcKeys : conc.del[k] <= conc.ins[k]

\* Both clients removed alice, who had a row, concurrently.
C18_Witness ==
    /\ ConcurrentRemoves("c1", "c2")
    /\ conc.calls["c1"].pubkey = "alice"
    /\ conc.calls["c1"].found \/ conc.calls["c2"].found
    /\ conc.ins["alice"] = 1 /\ conc.del["alice"] = 1

====
